---- MODULE Spec2Model ----
(***************************************************************************)
(* Model of source/wealth_builder_tools.py: the Plaid gateway              *)
(* (Plaid_Interface), the Bill dataclass and the recurring-bill analyzer   *)
(* (Account_Analyzer).                                                     *)
(*                                                                         *)
(* Python strings are sequences of one-character strings, a calendar date  *)
(* is <<year, month, day>>, a pandas Timestamp is                          *)
(* <<year, month, day, hour, minute, second>>, a DataFrame is              *)
(* [columns |-> set of column names, rows |-> sequence of records], and    *)
(* the outcome of a call is [kind |-> "return", value |-> v] or            *)
(* [kind |-> "raise", exc |-> name of the exception].                      *)
(***************************************************************************)
EXTENDS Integers, Sequences, FiniteSets, TLC

VARIABLES
    account_history,        \* Account_Analyzer.account_history
    bill_list,              \* Account_Analyzer.bill_list
    bill_filter_condition,  \* the boolean mask of the latest analyze_bill_activity
    today,                  \* the calendar date of the clock
    pc,                     \* "idle", or "loop" inside get_account_history
    date_range,             \* get_account_history: the dates computed
    date_query_list,        \* get_account_history: the dates retained
    history_concat_list,    \* get_account_history: the responses collected
    queries,                \* the transactions_get requests of the call, with their outcomes
    api,                    \* the outcome of the latest accounts_get request
    op,                     \* the call that was made last
    arg,                    \* its argument
    ret                     \* its outcome

analyzer_vars == <<account_history, bill_list, bill_filter_condition>>

gateway_vars ==
    <<today, pc, date_range, date_query_list, history_concat_list, queries, api>>

vars == <<analyzer_vars, gateway_vars, op, arg, ret>>

\* ------------------------------------------------------------------ bounds
MaxRows == 2
MaxBills == 2

\* ----------------------------------------------------------------- strings
None == <<"<None>">>

NoArg == <<>>

S_Acme == <<"A", "c", "m", "e">>
S_acme == <<"a", "c", "m", "e">>
S_AcmePadded == <<" ", "A", "c", "m", "e", " ", " ">>
S_Other == <<"O", "t", "h", "e", "r">>
S_None == <<"N", "o", "n", "e">>
S_Cat == <<"1", "8">>

IsSpace(c) == c \in {" ", "\t", "\n"}

lower_char(c) ==
    CASE c = "A" -> "a"
      [] c = "C" -> "c"
      [] c = "E" -> "e"
      [] c = "G" -> "g"
      [] c = "M" -> "m"
      [] c = "N" -> "n"
      [] c = "O" -> "o"
      [] OTHER -> c

\* str.lower()
lower(s) == [i \in 1..Len(s) |-> lower_char(s[i])]

RECURSIVE lstrip(_)
lstrip(s) == IF s # <<>> /\ IsSpace(Head(s)) THEN lstrip(Tail(s)) ELSE s

RECURSIVE rstrip(_)
rstrip(s) ==
    IF s # <<>> /\ IsSpace(s[Len(s)]) THEN rstrip(SubSeq(s, 1, Len(s) - 1)) ELSE s

\* str.strip()
strip(s) == rstrip(lstrip(s))

\* str(mn): a missing value becomes the text 'None'
str(mn) == IF mn = None THEN S_None ELSE mn

\* ------------------------------------------------------------------- Bill
BillFields == {"name", "regex", "due_date", "merchant_name", "frequency", "period", "amount"}

\* the dataclass fields declared with a default value
BillDefaults == [frequency |-> 1, period |-> "monthly", amount |-> 0]

RequiredBillFields == BillFields \ DOMAIN BillDefaults

\* Bill(**kwargs): kw.given is the set of keyword arguments passed, kw.vals
\* their values.
Bill(kw) ==
    IF ~(RequiredBillFields \subseteq kw.given)
    THEN [kind |-> "raise", exc |-> "TypeError"]
    ELSE [kind |-> "return",
          value |-> [name |-> kw.vals.name,
                     regex |-> kw.vals.regex,
                     due_date |-> kw.vals.due_date,
                     merchant_name |-> kw.vals.merchant_name,
                     frequency |-> IF "frequency" \in kw.given
                                   THEN kw.vals.frequency ELSE BillDefaults.frequency,
                     period |-> IF "period" \in kw.given
                                THEN kw.vals.period ELSE BillDefaults.period,
                     amount |-> IF "amount" \in kw.given
                                THEN kw.vals.amount ELSE BillDefaults.amount]]

to_dict(b) ==
    [NAME |-> b.name,
     REGEX |-> b.regex,
     FREQUENCY |-> b.frequency,
     MERCHANT_NAME |-> b.merchant_name,
     PERIOD |-> b.period,
     AMOUNT |-> b.amount,
     DUE_DATE |-> b.due_date]

\* ------------------------------------------------- inputs of the analyzer
KwVals(merchant) ==
    [name |-> "gym", regex |-> "", due_date |-> "05", merchant_name |-> merchant,
     frequency |-> 2, period |-> "weekly", amount |-> 40]

KwargsPool ==
    { [given |-> BillFields, vals |-> KwVals(S_Acme)],
      [given |-> RequiredBillFields, vals |-> KwVals(S_acme)],
      [given |-> RequiredBillFields, vals |-> KwVals(S_None)],
      [given |-> BillFields \ {"regex"}, vals |-> KwVals(S_acme)],
      [given |-> BillFields \ {"regex", "frequency", "period", "amount"},
       vals |-> KwVals(S_Other)] }

\* the Bill objects a caller can hold
Bills == { Bill(kw).value : kw \in { k \in KwargsPool : Bill(k).kind = "return" } }

Tx(date, merchant, name, amount, category) ==
    [date |-> date, merchant_name |-> merchant, name |-> name,
     amount |-> amount, category_id |-> category]

TxPool ==
    { Tx(<<2024, 1, 5>>, S_Acme, "GYM", 40, S_Cat),
      Tx(<<2024, 2, 5>>, S_acme, "GYM", 40, S_Cat),
      Tx(<<2024, 3, 5>>, S_Other, "POS", 10, S_Cat),
      Tx(<<2024, 1, 5>>, S_AcmePadded, "GYM", 40, None),
      Tx(<<2024, 1, 5>>, None, "POS", 10, S_Cat) }

TxColumns == {"date", "merchant_name", "name", "amount", "category_id"}

SeqsUpTo(S, n) == UNION { [1..k -> S] : k \in 0..n }

\* pd.DataFrame(): no rows and no columns
EmptyFrame == [columns |-> {}, rows |-> <<>>]

\* the tables get_account_history can hand to the analyzer
Histories ==
    {EmptyFrame} \cup { [columns |-> TxColumns, rows |-> r] : r \in SeqsUpTo(TxPool, MaxRows) }

\* -------------------------------------------------------- Account_Analyzer
Return(v) == [kind |-> "return", value |-> v]

Raise(e) == [kind |-> "raise", exc |-> e]

\* pd.to_datetime of a date: the Timestamp of that day's midnight
to_datetime(d) == <<d[1], d[2], d[3], 0, 0, 0>>

\* the merchant-name side of the comparison in analyze_bill_activity
NormTransactionMerchant(mn) == lower(strip(str(mn)))

\* the bill side of the comparison in analyze_bill_activity
NormBillMerchantStripOnly(b) == strip(b.merchant_name)

NormBillMerchant(b) == lower(strip(b.merchant_name))

\* self.account_history['merchant_name'].apply(...) == bill.merchant_name...
FilterCondition(frame, b) ==
    [i \in 1..Len(frame.rows) |->
        NormTransactionMerchant(frame.rows[i].merchant_name) = NormBillMerchant(b)]

\* self.account_history[bill_filter_condition].copy(), then the date column
\* converted in the copy
RECURSIVE SelectRows(_, _, _)
SelectRows(rows, mask, i) ==
    IF i > Len(rows) THEN <<>>
    ELSE (IF mask[i] THEN <<[rows[i] EXCEPT !.date = to_datetime(@)]>> ELSE <<>>)
         \o SelectRows(rows, mask, i + 1)

GroupKey(r) == <<r.date, r.name, r.amount>>

\* the order of the description texts that occur in the model
SortedNames == <<"GYM", "POS">>

NameRank(n) == CHOOSE i \in 1..Len(SortedNames) : SortedNames[i] = n

RECURSIVE TupleLess(_, _)
TupleLess(a, b) ==
    IF a = <<>> \/ b = <<>> THEN a = <<>> /\ b # <<>>
    ELSE \/ Head(a) < Head(b)
         \/ Head(a) = Head(b) /\ TupleLess(Tail(a), Tail(b))

KeyLess(k1, k2) ==
    \/ TupleLess(k1[1], k2[1])
    \/ k1[1] = k2[1] /\ NameRank(k1[2]) < NameRank(k2[2])
    \/ k1[1] = k2[1] /\ k1[2] = k2[2] /\ k1[3] < k2[3]

RECURSIVE SortedKeys(_)
SortedKeys(K) ==
    IF K = {} THEN <<>>
    ELSE LET k == CHOOSE x \in K : \A y \in K \ {x} : KeyLess(x, y)
         IN <<k>> \o SortedKeys(K \ {k})

\* SeriesGroupBy.count(): the rows of the group whose value is not missing
GroupCount(rows, k) ==
    Cardinality({ i \in 1..Len(rows) : GroupKey(rows[i]) = k /\ rows[i].category_id # None })


\* groupby(['date', 'name', 'amount'])['category_id'].count(), reset_index();
\* the rename of line 210 renames no column, the count stays in 'category_id'
GroupByCount(rows) ==
    LET keys == SortedKeys({ GroupKey(rows[i]) : i \in 1..Len(rows) })
    IN [columns |-> {"date", "name", "amount", "category_id"},
        rows |-> [j \in 1..Len(keys) |->
                    [date |-> keys[j][1], name |-> keys[j][2], amount |-> keys[j][3],
                     category_id |-> GroupCount(rows, keys[j])]]]

analyze_bill_activity(frame, b) ==
    IF "merchant_name" \notin frame.columns
    THEN Raise("KeyError")
    ELSE Return(GroupByCount(SelectRows(frame.rows, FilterCondition(frame, b), 1)))

\* the stored table after analyze_bill_activity: the filtered rows are copied
\* before their date column is converted
HistoryAfterAnalyze(frame, b) == frame

add_recurring_bill_dedup(bl, b) ==
    IF \E i \in 1..Len(bl) : bl[i] = b THEN bl ELSE Append(bl, b)

add_recurring_bill(bl, b) == Append(bl, b)

report_bills(bl) == Return([i \in 1..Len(bl) |-> to_dict(bl[i])])

\* the loop of find_bills_in_period; the first analysis that raises ends it
RECURSIVE FindLoop(_, _, _, _)
FindLoop(frame, bl, i, acc) ==
    IF i > Len(bl) THEN Return(acc)
    ELSE LET r == analyze_bill_activity(frame, bl[i])
         IN IF r.kind = "raise" THEN r
            ELSE FindLoop(frame, bl, i + 1, Append(acc, r.value))

find_bills_in_period(frame, bl) == FindLoop(frame, bl, 1, <<>>)

\* ----------------------------------------------------------------- actions
\* no Plaid_Interface at work
GatewayIdle ==
    /\ today = <<2024, 1, 1>>
    /\ pc = "idle"
    /\ date_range = <<>>
    /\ date_query_list = <<>>
    /\ history_concat_list = <<>>
    /\ queries = <<>>
    /\ api = Return(NoArg)

InitAnalyzer ==
    /\ account_history \in Histories
    /\ bill_list = <<>>
    /\ bill_filter_condition = <<>>
    /\ op = "__init__"
    /\ arg = NoArg
    /\ ret = Return(NoArg)
    /\ GatewayIdle

\* Bill(...): the dataclass constructor
NewBill ==
    \E kw \in KwargsPool :
        /\ op' = "Bill"
        /\ arg' = kw
        /\ ret' = Bill(kw)
        /\ UNCHANGED <<account_history, bill_list, bill_filter_condition>>
        /\ UNCHANGED gateway_vars

AddRecurringBill ==
    \E b \in Bills :
        /\ Len(bill_list) < MaxBills
        /\ bill_list' = add_recurring_bill(bill_list, b)
        /\ op' = "add_recurring_bill"
        /\ arg' = b
        /\ ret' = Return(NoArg)
        /\ UNCHANGED <<account_history, bill_filter_condition>>
        /\ UNCHANGED gateway_vars

ReportBills ==
    /\ op' = "report_bills"
    /\ arg' = NoArg
    /\ ret' = report_bills(bill_list)
    /\ UNCHANGED <<account_history, bill_list, bill_filter_condition>>
    /\ UNCHANGED gateway_vars

AnalyzeBillActivity ==
    \E b \in Bills :
        /\ op' = "analyze_bill_activity"
        /\ arg' = b
        /\ ret' = analyze_bill_activity(account_history, b)
        /\ bill_filter_condition' =
              IF "merchant_name" \in account_history.columns
              THEN FilterCondition(account_history, b)
              ELSE bill_filter_condition
        /\ account_history' = HistoryAfterAnalyze(account_history, b)
        /\ UNCHANGED bill_list
        /\ UNCHANGED gateway_vars

FindBillsInPeriod ==
    /\ op' = "find_bills_in_period"
    /\ arg' = NoArg
    /\ ret' = find_bills_in_period(account_history, bill_list)
    /\ bill_filter_condition' =
          IF "merchant_name" \in account_history.columns /\ bill_list # <<>>
          THEN FilterCondition(account_history, bill_list[Len(bill_list)])
          ELSE bill_filter_condition
    /\ account_history' =
          IF bill_list = <<>> THEN account_history
          ELSE HistoryAfterAnalyze(account_history, bill_list[Len(bill_list)])
    /\ UNCHANGED bill_list
    /\ UNCHANGED gateway_vars

NextAnalyzer ==
    \/ NewBill
    \/ AddRecurringBill
    \/ ReportBills
    \/ AnalyzeBillActivity
    \/ FindBillsInPeriod

SpecAnalyzer == InitAnalyzer /\ [][NextAnalyzer]_vars

\* ---------------------------------------------------------- calendar dates
IsLeap(y) == (y % 4 = 0 /\ y % 100 # 0) \/ y % 400 = 0

DaysInMonth(y, m) ==
    IF m = 2 THEN (IF IsLeap(y) THEN 29 ELSE 28)
    ELSE IF m \in {4, 6, 9, 11} THEN 30 ELSE 31

MinOf(a, b) == IF a < b THEN a ELSE b

\* d - relativedelta(days=1)
MinusOneDay(d) ==
    IF d[3] > 1 THEN <<d[1], d[2], d[3] - 1>>
    ELSE IF d[2] > 1 THEN <<d[1], d[2] - 1, DaysInMonth(d[1], d[2] - 1)>>
    ELSE <<d[1] - 1, 12, 31>>

\* d + relativedelta(days=1)
PlusOneDay(d) ==
    IF d[3] < DaysInMonth(d[1], d[2]) THEN <<d[1], d[2], d[3] + 1>>
    ELSE IF d[2] < 12 THEN <<d[1], d[2] + 1, 1>>
    ELSE <<d[1] + 1, 1, 1>>

\* d - relativedelta(months=1): the day is cut to the length of the month
MinusOneMonth(d) ==
    LET y == IF d[2] = 1 THEN d[1] - 1 ELSE d[1]
        m == IF d[2] = 1 THEN 12 ELSE d[2] - 1
    IN <<y, m, MinOf(d[3], DaysInMonth(y, m))>>

\* d + relativedelta(months=1)
PlusOneMonth(d) ==
    LET y == IF d[2] = 12 THEN d[1] + 1 ELSE d[1]
        m == IF d[2] = 12 THEN 1 ELSE d[2] + 1
    IN <<y, m, MinOf(d[3], DaysInMonth(y, m))>>

DateLess(a, b) == TupleLess(a, b)

\* --------------------------------------------------------- Plaid_Interface
MaxPeriods == 3

TransactionsCount == 500

StepBack(option, date) ==
    IF option = "d" THEN MinusOneDay(date) ELSE MinusOneMonth(date)

\* the loop of get_date_range with the append made before the step
RECURSIVE DateRangeLoopAppendFirst(_, _, _, _)
DateRangeLoopAppendFirst(date, option, left, date_list) ==
    IF left = 0 THEN date_list
    ELSE DateRangeLoopAppendFirst(StepBack(option, date), option, left - 1,
                                  Append(date_list, date))

RECURSIVE DateRangeLoop(_, _, _, _)
DateRangeLoop(date, option, left, date_list) ==
    IF left = 0 THEN date_list
    ELSE LET stepped == StepBack(option, date)
         IN DateRangeLoop(stepped, option, left - 1, Append(date_list, stepped))

get_date_range_append_first(start_date, option, periods) ==
    DateRangeLoopAppendFirst(start_date, option, periods, <<>>)

get_date_range(start_date, option, periods) ==
    DateRangeLoop(start_date, option, periods, <<>>)

\* the dates of date_range that are before now, in their order
RetainedDates(dates, now) ==
    SelectSeq(dates, LAMBDA d : DateLess(d, now))

\* json.loads of the body of an error: the members of the object, a later
\* member of the same name replacing an earlier one; a body that is no JSON
\* text has no members at all
RECURSIVE MembersToMapping(_, _)
MembersToMapping(members, acc) ==
    IF members = <<>> THEN acc
    ELSE MembersToMapping(Tail(members),
            [k \in DOMAIN acc \cup {Head(members)[1]} |->
                IF k = Head(members)[1] THEN Head(members)[2] ELSE acc[k]])

json_loads(body) ==
    IF body.json THEN Return(MembersToMapping(body.members, <<>>))
    ELSE Raise("JSONDecodeError")

format_error(e) ==
    LET response == json_loads(e.body)
    IN IF response.kind = "raise" THEN response
       ELSE IF ~({"error_message", "error_code", "error_type"} \subseteq DOMAIN response.value)
       THEN Raise("KeyError")
       ELSE Return([error |->
                [status_code |-> e.status,
                 display_message |-> response.value["error_message"],
                 error_code |-> response.value["error_code"],
                 error_type |-> response.value["error_type"]]])

\* get_account_details with the except clause left out
get_account_details_uncaught(outcome) ==
    IF outcome.kind = "raise" THEN Raise("ApiException") ELSE Return(outcome.value)

\* outcome: what self.client.accounts_get(request) does
get_account_details(outcome) ==
    IF outcome.kind = "raise" THEN format_error(outcome.exc) ELSE Return(outcome.value)

get_plaid_accounts(outcome) ==
    LET account_list == get_account_details(outcome)
    IN IF account_list.kind = "raise" THEN account_list
       ELSE IF "accounts" \notin DOMAIN account_list.value THEN Raise("KeyError")
       ELSE Return([columns |-> {"Account_ID", "Account_Name", "Balance"},
                    rows |-> [i \in 1..Len(account_list.value.accounts) |->
                        [Account_ID |-> account_list.value.accounts[i].account_id,
                         Account_Name |-> account_list.value.accounts[i].name,
                         Balance |-> account_list.value.accounts[i].balances.available]]])

\* get_transactions_from_plaid with the failure of the request swallowed
get_transactions_from_plaid_swallow(start, end, outcome) ==
    IF outcome.kind = "raise" THEN Return([transactions |-> <<>>])
    ELSE Return(outcome.value)

\* outcome: what self.client.transactions_get(request) does; nothing catches
\* its exception
get_transactions_from_plaid(start, end, outcome) ==
    IF start = None THEN Return(None)
    ELSE IF outcome.kind = "raise" THEN Raise("ApiException")
    ELSE Return(outcome.value)

RECURSIVE FlattenRecords(_)
FlattenRecords(responses) ==
    IF responses = <<>> THEN <<>>
    ELSE Head(responses).transactions \o FlattenRecords(Tail(responses))

RECURSIVE DropRepeated(_)
DropRepeated(rows) ==
    IF rows = <<>> THEN <<>>
    ELSE LET front == DropRepeated(SubSeq(rows, 1, Len(rows) - 1))
             last == rows[Len(rows)]
         IN IF \E i \in 1..Len(front) : front[i] = last THEN front
            ELSE Append(front, last)

Frame(rows) ==
    IF rows = <<>> THEN EmptyFrame ELSE [columns |-> TxColumns, rows |-> rows]

\* the concatenation with repeated transactions dropped
json_normalize_drop_duplicates(responses) == Frame(DropRepeated(FlattenRecords(responses)))

\* pd.json_normalize(history_concat_list, record_path=['transactions']): a
\* frame of all the records; of no records, a frame without columns
json_normalize(responses) == Frame(FlattenRecords(responses))

\* ------------------------------------------------- inputs of the gateway
DaySamples == {1, 29, 30, 31}

Years == {2023, 2024}

\* the dates the clock can show
Todays ==
    { d \in Years \X (1..12) \X DaySamples : d[3] <= DaysInMonth(d[1], d[2]) }

Options == {"d", "m"}

GatewayTx1 == Tx(<<2024, 1, 5>>, S_Acme, "GYM", 40, S_Cat)

GatewayTx2 == Tx(<<2024, 1, 5>>, None, "POS", 10, None)

\* the answers of transactions_get
TransactionBatches == { <<>>, <<GatewayTx2, GatewayTx1>> }

Account(id, name, available) ==
    [account_id |-> id, name |-> name, balances |-> [available |-> available]]

\* the answers of accounts_get
AccountsResponses ==
    { [accounts |-> <<>>, request_id |-> "r1"],
      [accounts |-> <<Account("a1", "Checking", 100), Account("a2", "Saving", 0)>>,
       request_id |-> "r2"] }

PlaidErrorBody(message, code, type) ==
    [json |-> TRUE,
     members |-> << <<"display_message", "null">>, <<"error_code", code>>,
                    <<"error_message", message>>, <<"error_type", type>>,
                    <<"request_id", "r3">> >>]

\* the exceptions of the client: errors the API declares, and a failure
\* whose body is no JSON text
ApiExceptions ==
    { [status |-> 400,
       body |-> PlaidErrorBody("bad token", "INVALID_ACCESS_TOKEN", "INVALID_INPUT")],
      [status |-> 500,
       body |-> PlaidErrorBody("try again", "INTERNAL_SERVER_ERROR", "API_ERROR")],
      [status |-> 502, body |-> [json |-> FALSE, members |-> <<>>]] }

IsDeclaredError(e) == e.body.json

AccountsOutcomes ==
    { Return(r) : r \in AccountsResponses } \cup
    { [kind |-> "raise", exc |-> e] : e \in ApiExceptions }

TransactionsOutcomes ==
    { Return([transactions |-> b]) : b \in TransactionBatches } \cup
    { [kind |-> "raise", exc |-> e] : e \in ApiExceptions }

\* ----------------------------------------------------------------- actions
AnalyzerIdle ==
    /\ account_history = EmptyFrame
    /\ bill_list = <<>>
    /\ bill_filter_condition = <<>>

InitGateway ==
    /\ today \in Todays
    /\ pc = "idle"
    /\ date_range = <<>>
    /\ date_query_list = <<>>
    /\ history_concat_list = <<>>
    /\ queries = <<>>
    /\ api = Return(NoArg)
    /\ op = "__init__"
    /\ arg = NoArg
    /\ ret = Return(NoArg)
    /\ AnalyzerIdle

\* the locals of an earlier get_account_history are gone
HistoryLocalsCleared ==
    /\ date_range' = <<>>
    /\ date_query_list' = <<>>
    /\ history_concat_list' = <<>>
    /\ queries' = <<>>

GetAccountDetails ==
    \E outcome \in AccountsOutcomes :
        /\ pc = "idle"
        /\ api' = outcome
        /\ op' = "get_account_details"
        /\ arg' = NoArg
        /\ ret' = get_account_details(outcome)
        /\ HistoryLocalsCleared
        /\ UNCHANGED <<today, pc>>
        /\ UNCHANGED analyzer_vars

GetPlaidAccounts ==
    \E outcome \in AccountsOutcomes :
        /\ pc = "idle"
        /\ api' = outcome
        /\ op' = "get_plaid_accounts"
        /\ arg' = NoArg
        /\ ret' = get_plaid_accounts(outcome)
        /\ HistoryLocalsCleared
        /\ UNCHANGED <<today, pc>>
        /\ UNCHANGED analyzer_vars

GetDateRange ==
    \E option \in Options, periods \in 0..MaxPeriods :
        /\ pc = "idle"
        /\ op' = "get_date_range"
        /\ arg' = [option |-> option, periods |-> periods]
        /\ ret' = Return(get_date_range(today, option, periods))
        /\ HistoryLocalsCleared
        /\ UNCHANGED <<today, pc, api>>
        /\ UNCHANGED analyzer_vars

\* get_account_history up to its loop; the clock may pass midnight between
\* datetime.today() of get_date_range and datetime.now() of the filter
GetAccountHistoryBegin ==
    \E option \in Options, periods \in 0..MaxPeriods, now \in {today, PlusOneDay(today)} :
        /\ pc = "idle"
        /\ pc' = "loop"
        /\ op' = "get_account_history"
        /\ arg' = [option |-> option, periods |-> periods]
        /\ date_range' = get_date_range(today, option, periods)
        /\ date_query_list' = RetainedDates(date_range', now)
        /\ history_concat_list' = <<>>
        /\ queries' = <<>>
        /\ ret' = Return(NoArg)
        /\ UNCHANGED <<today, api>>
        /\ UNCHANGED analyzer_vars

Window(date) == [start |-> date, end |-> PlusOneMonth(date), count |-> TransactionsCount]

\* one turn of the loop whose request is answered
HistoryQueryAnswered ==
    \E outcome \in TransactionsOutcomes :
        LET date == date_query_list[Len(queries) + 1]
            trns_history == get_transactions_from_plaid(date, PlusOneMonth(date), outcome)
        IN /\ pc = "loop"
           /\ Len(queries) < Len(date_query_list)
           /\ trns_history.kind = "return"
           /\ queries' = Append(queries, [request |-> Window(date), outcome |-> outcome])
           /\ history_concat_list' = Append(history_concat_list, trns_history.value)
           /\ UNCHANGED <<today, pc, date_range, date_query_list, api, op, arg, ret>>
           /\ UNCHANGED analyzer_vars

\* one turn of the loop whose request fails: the exception leaves
\* get_account_history
HistoryQueryRaises ==
    \E outcome \in TransactionsOutcomes :
        LET date == date_query_list[Len(queries) + 1]
            trns_history == get_transactions_from_plaid(date, PlusOneMonth(date), outcome)
        IN /\ pc = "loop"
           /\ Len(queries) < Len(date_query_list)
           /\ trns_history.kind = "raise"
           /\ queries' = Append(queries, [request |-> Window(date), outcome |-> outcome])
           /\ ret' = trns_history
           /\ pc' = "idle"
           /\ UNCHANGED <<today, date_range, date_query_list, history_concat_list, api, op, arg>>
           /\ UNCHANGED analyzer_vars

GetAccountHistoryReturn ==
    /\ pc = "loop"
    /\ Len(queries) = Len(date_query_list)
    /\ ret' = Return(json_normalize(history_concat_list))
    /\ pc' = "idle"
    /\ UNCHANGED <<today, date_range, date_query_list, history_concat_list, queries, api, op, arg>>
    /\ UNCHANGED analyzer_vars

NextGateway ==
    \/ GetAccountDetails
    \/ GetPlaidAccounts
    \/ GetDateRange
    \/ GetAccountHistoryBegin
    \/ HistoryQueryAnswered
    \/ HistoryQueryRaises
    \/ GetAccountHistoryReturn

SpecGateway == InitGateway /\ [][NextGateway]_vars

\* ============================================================== analyzer
\* ------------------------------------------- the claims' own vocabulary
CasePairs == {<<"A", "a">>, <<"C", "c">>, <<"E", "e">>, <<"G", "g">>,
              <<"M", "m">>, <<"N", "n">>, <<"O", "o">>}

SameLetter(c, d) == c = d \/ <<c, d>> \in CasePairs \/ <<d, c>> \in CasePairs

\* s without the white space before its first and after its last other character
Core(s) ==
    LET idx == { i \in 1..Len(s) : ~IsSpace(s[i]) }
    IN IF idx = {} THEN <<>>
       ELSE SubSeq(s, CHOOSE i \in idx : \A j \in idx : i <= j,
                      CHOOSE i \in idx : \A j \in idx : i >= j)

EqualUpToCaseAndTrim(a, b) ==
    /\ Len(Core(a)) = Len(Core(b))
    /\ \A i \in 1..Len(Core(a)) : SameLetter(Core(a)[i], Core(b)[i])

\* the rows of the stored table whose merchant name is the bill's
MatchingRows(b) ==
    { i \in 1..Len(account_history.rows) :
        /\ account_history.rows[i].merchant_name # None
        /\ EqualUpToCaseAndTrim(account_history.rows[i].merchant_name, b.merchant_name) }

RowKey(i) ==
    <<to_datetime(account_history.rows[i].date), account_history.rows[i].name,
      account_history.rows[i].amount>>

ReadOps == {"report_bills", "analyze_bill_activity", "find_bills_in_period"}

ReportKeys == {"NAME", "MERCHANT_NAME", "REGEX", "FREQUENCY", "PERIOD", "AMOUNT", "DUE_DATE"}

\* C1: analyze_bill_activity returns one row per distinct (date, name, amount)
\* among the transactions whose normalized merchant name is the bill's, the
\* count of a row is the number of matching transactions of its group, and no
\* other transaction contributes (stated for a table that has its columns and
\* whose transactions all have a merchant name).
C1_OneRowPerGroupWithRowCount ==
    (op = "analyze_bill_activity" /\ account_history.columns = TxColumns
        /\ \A i \in 1..Len(account_history.rows) :
              account_history.rows[i].merchant_name # None) =>
        /\ ret.kind = "return"
        /\ LET out == ret.value.rows
               keys == { RowKey(i) : i \in MatchingRows(arg) }
           IN /\ Len(out) = Cardinality(keys)
              /\ { <<out[j].date, out[j].name, out[j].amount>> : j \in 1..Len(out) } = keys
              /\ \A j \in 1..Len(out) :
                    out[j].category_id =
                        Cardinality({ i \in MatchingRows(arg) :
                            RowKey(i) = <<out[j].date, out[j].name, out[j].amount>> })

\* C2: find_bills_in_period returns one result per registered bill, in
\* registration order, the i-th being the analysis of the i-th bill, also for
\* bills that match nothing.
C2_OneResultPerBillInOrder ==
    op = "find_bills_in_period" =>
        /\ ret.kind = "return"
        /\ Len(ret.value) = Len(bill_list)
        /\ \A i \in 1..Len(bill_list) :
              /\ analyze_bill_activity(account_history, bill_list[i]).kind = "return"
              /\ ret.value[i] = analyze_bill_activity(account_history, bill_list[i]).value

C8_NoMatchGivesEmptyTable ==
    (op = "analyze_bill_activity" /\ MatchingRows(arg) = {}
        /\ \A i \in 1..Len(account_history.rows) :
              account_history.rows[i].merchant_name # None) =>
        /\ ret.kind = "return"
        /\ ret.value.rows = <<>>

\* C9: add_recurring_bill appends exactly its bill and touches nothing else;
\* report_bills, analyze_bill_activity and find_bills_in_period leave the
\* registry and the stored table as they are, and give the same result when
\* repeated.
C9_Step ==
    /\ op' = "add_recurring_bill" =>
          /\ Len(bill_list') = Len(bill_list) + 1
          /\ bill_list'[Len(bill_list')] = arg'
          /\ SubSeq(bill_list', 1, Len(bill_list)) = bill_list
          /\ account_history' = account_history
    /\ op' \in ReadOps =>
          /\ bill_list' = bill_list
          /\ account_history' = account_history
    /\ (op' \in ReadOps /\ op = op' /\ arg = arg') => ret' = ret

C9_RegistryAppendOnly == [][C9_Step]_vars

\* the same bill registered twice, then read
C9_Witness ==
    /\ Len(bill_list) = 2
    /\ bill_list[1] = bill_list[2]
    /\ op = "find_bills_in_period"

\* C10: report_bills gives one mapping per registered bill, in order, each
\* with exactly the seven keys; a bill made without regex, frequency, period
\* or amount is made all the same and serializes with every key.
C10_FixedKeysWithDefaults ==
    /\ op = "report_bills" =>
          /\ ret.kind = "return"
          /\ Len(ret.value) = Len(bill_list)
          /\ \A i \in 1..Len(bill_list) :
                /\ DOMAIN ret.value[i] = ReportKeys
                /\ ret.value[i].NAME = bill_list[i].name
                /\ ret.value[i].MERCHANT_NAME = bill_list[i].merchant_name
    /\ (op = "Bill" /\ {"name", "due_date", "merchant_name"} \subseteq arg.given) =>
          /\ ret.kind = "return"
          /\ DOMAIN to_dict(ret.value) = ReportKeys

\* =============================================================== gateway
\* ------------------------------------------- the claims' own vocabulary
RECURSIVE DaysBeforeMonth(_, _)
DaysBeforeMonth(y, m) ==
    IF m = 1 THEN 0 ELSE DaysBeforeMonth(y, m - 1) + DaysInMonth(y, m - 1)

\* the number of the day, counted from 0001-01-01
Ordinal(d) ==
    LET y == d[1] - 1
    IN 365 * y + (y \div 4) - (y \div 100) + (y \div 400) + DaysBeforeMonth(d[1], d[2]) + d[3]

MonthIndex(d) == 12 * d[1] + d[2]

IsDate(d) == d[2] \in 1..12 /\ d[3] \in 1..DaysInMonth(d[1], d[2])

OneStepEarlier(option, prev, next) ==
    /\ IsDate(next)
    /\ IF option = "d" THEN Ordinal(prev) - Ordinal(next) = 1
       ELSE /\ MonthIndex(prev) - MonthIndex(next) = 1
            /\ next[3] = MinOf(prev[3], DaysInMonth(next[1], next[2]))

SteppedBackFromToday(option, periods, dates) ==
    /\ Len(dates) = periods
    /\ Len(dates) > 0 => OneStepEarlier(option, today, dates[1])
    /\ \A k \in 2..Len(dates) : OneStepEarlier(option, dates[k - 1], dates[k])
    /\ \A k \in 1..Len(dates) : Ordinal(dates[k]) < Ordinal(today)

RECURSIVE RowsBefore(_)
\* the number of transactions answered to the first k requests
RowsBefore(k) ==
    IF k = 0 THEN 0
    ELSE RowsBefore(k - 1) + Len(queries[k].outcome.value.transactions)

ErrorKeys == {"status_code", "display_message", "error_code", "error_type"}

\* C4: when accounts_get fails with an error the API declares,
\* get_account_details raises nothing and returns a mapping whose only key is
\* 'error', carrying the status and the message, code and type of the error;
\* an answer of the API has no 'error' key, so the key tells the two apart.
C4_DeclaredErrorReturnedAsData ==
    /\ (op = "get_account_details" /\ api.kind = "raise" /\ IsDeclaredError(api.exc)) =>
          /\ ret.kind = "return"
          /\ DOMAIN ret.value = {"error"}
          /\ DOMAIN ret.value.error = ErrorKeys
          /\ ret.value.error.status_code = api.exc.status
          /\ \E k \in 1..Len(api.exc.body.members) :
                api.exc.body.members[k] = <<"error_message", ret.value.error.display_message>>
          /\ \E k \in 1..Len(api.exc.body.members) :
                api.exc.body.members[k] = <<"error_code", ret.value.error.error_code>>
          /\ \E k \in 1..Len(api.exc.body.members) :
                api.exc.body.members[k] = <<"error_type", ret.value.error.error_type>>
    /\ (op = "get_account_details" /\ api.kind = "return") =>
          /\ ret.kind = "return"
          /\ "error" \notin DOMAIN ret.value

\* accounts_get failed with status 400 and the mapping came back
C4_Witness ==
    /\ op = "get_account_details"
    /\ api.kind = "raise"
    /\ api.exc.status = 400
    /\ ret.kind = "return"
    /\ ret.value.error.status_code = 400
    /\ ret.value.error.error_code = "INVALID_ACCESS_TOKEN"

\* C5: in get_account_history a request that fails is the last request of the
\* call, and the call then ends by raising: no later window is asked for and
\* no table is returned.
C5_FailFastNoPartialTable ==
    /\ \A k \in 1..(Len(queries) - 1) : queries[k].outcome.kind = "return"
    /\ (queries # <<>> /\ queries[Len(queries)].outcome.kind = "raise") =>
          /\ op = "get_account_history"
          /\ pc = "idle"
          /\ ret.kind = "raise"

\* the second of three windows failed after the first had returned transactions
C5_Witness ==
    /\ op = "get_account_history"
    /\ pc = "idle"
    /\ Len(date_query_list) = 3
    /\ Len(queries) = 2
    /\ queries[1].outcome.kind = "return"
    /\ queries[1].outcome.value.transactions # <<>>
    /\ queries[2].outcome.kind = "raise"
    /\ ret.kind = "raise"

C7_OneQueryPerDateAndConcatenation ==
    op = "get_account_history" =>
        /\ Len(queries) <= Len(date_query_list)
        /\ \A k \in 1..Len(queries) :
              /\ queries[k].request.start = date_query_list[k]
              /\ MonthIndex(queries[k].request.end) - MonthIndex(queries[k].request.start) = 1
              /\ queries[k].request.end[3] =
                    MinOf(queries[k].request.start[3],
                          DaysInMonth(queries[k].request.end[1], queries[k].request.end[2]))
        /\ (pc = "idle" /\ ret.kind = "return") =>
              /\ Len(queries) = Len(date_query_list)
              /\ Len(ret.value.rows) = RowsBefore(Len(queries))
              /\ \A k \in 1..Len(queries) :
                    \A j \in 1..Len(queries[k].outcome.value.transactions) :
                        ret.value.rows[RowsBefore(k - 1) + j] =
                            queries[k].outcome.value.transactions[j]

\* two day-stepped windows that overlap, both answered with the same
\* transactions, all four of them returned
C7_Witness ==
    /\ op = "get_account_history"
    /\ pc = "idle"
    /\ ret.kind = "return"
    /\ arg.option = "d"
    /\ Len(queries) = 2
    /\ Ordinal(queries[1].request.start) < Ordinal(queries[2].request.end)
    /\ Len(ret.value.rows) = 4
    /\ ret.value.rows[1] = ret.value.rows[3]

====
